---------------------------- MODULE Spec2Model ----------------------------
(***************************************************************************)
(* Model of the LLM Council client: the App component (App.jsx, the        *)
(* localStorage-backed version), the localConversations store, the         *)
(* streaming transport api.sendMessageStream, and the ChatInterface and     *)
(* Sidebar callers of App's handlers.                                       *)
(*                                                                         *)
(* One action is one JavaScript task: a user gesture's handler, or the     *)
(* delivery of one stream event / stream outcome.  React state updaters    *)
(* (setX(prev => ...)) are applied in the order they are issued, with the  *)
(* localConversations.save calls they contain.                             *)
(*                                                                         *)
(* Specifications:                                                         *)
(*   Spec          the App with its store and its streams                  *)
(*   StoreSpec     localConversations called directly, in any sequence     *)
(*   RawSpec       list() and get(id) over any texts in localStorage       *)
(*   ReaderSpec    the read loop of api.sendMessageStream over one body    *)
(*   CapturerSpec  the recorder of ChatInterface                           *)
(* Each leaves the variables of the others at their initial values.        *)
(***************************************************************************)
EXTENDS Naturals, Integers, Sequences, FiniteSets, TLC

(***************************************************************************)
(* Bounds of the model.                                                    *)
(***************************************************************************)
MaxConvs == 2       \* conversations that can be created
MaxTurns == 2       \* handleSendMessage calls (one stream each)
MaxEvents == 2      \* stream events delivered, over all streams
MaxWork == 6        \* conversations + calls + events, together
MaxClock == 2       \* the latest time the store is called at
MaxCalls == 3       \* direct calls on localConversations
MaxWritten == 3     \* events the service writes to one response body
MaxCaptures == 3    \* startRecording calls that pass the guard
MaxSamples == 2     \* samples handed to encodeWav

ConvIds == 1..MaxConvs
CaptureIds == 1..MaxCaptures
StreamIds == 1..MaxTurns

(***************************************************************************)
(* Values.  A JavaScript null is NoId for an id, Null for a stage payload, *)
(* NoQuery for a query string and None for an object; Some(v) is an        *)
(* object that is present.  A string the code concatenates is a sequence   *)
(* of tokens, so that concatenation is \o.                                 *)
(***************************************************************************)
NoId == 0
Null == "null"
None == << >>
Some(v) == << v >>
NoQuery == << >>

\* What the user types for call s: a non-blank text (input.trim() # ""), a
\* different one each time.  The code never compares contents.
Typed(s) == << "q" \o ToString(s) >>
Separator == <<"\n\nAdditional context: ">>
DefaultTitle == "New Conversation"

ClarificationData == [needs_clarification |-> TRUE, questions |-> <<"Which year?">>]

\* The events a stream can deliver: {type, data, metadata}.
EventTypes ==
    { "clarification_start", "clarification_needed", "clarification_complete",
      "stage1_start", "stage1_complete", "stage2_start", "stage2_complete",
      "stage3_start", "stage3_complete", "title_complete", "complete",
      "error", "unknown" }

Event(type, data) == [type |-> type, data |-> data]

Events ==
    { Event(t, Null) : t \in EventTypes \ {"stage1_complete", "stage2_complete",
                                           "stage3_complete", "title_complete"} }
    \cup { Event("stage1_complete", "s1"), Event("stage2_complete", "s2"),
           Event("stage3_complete", "s3"),
           Event("title_complete", "T"), Event("title_complete", "") }

VARIABLES
    records,               \* localStorage: id -> stored conversation record
    index,                 \* localStorage: the stored index (a sequence of entries)
    clock,                 \* the wall clock nowIso() reads
    conversations,         \* App state: the list shown in the sidebar
    currentConversationId, \* App state
    currentConversation,   \* App state: None or Some(conversation)
    isLoading,             \* App state
    pendingClarification,  \* App state: None or Some(clarification payload)
    originalQuery,         \* App state: NoQuery or a content
    streams,               \* one entry per handleSendMessage call
    nEvents,               \* events delivered so far
    crashed,               \* a state updater threw: React unmounted the App
    call,                  \* the last call made on localConversations directly
    rawIndex,              \* a text found under INDEX_KEY
    rawRecord,             \* id -> a text found under convKey(id)
    written,               \* the events the service wrote to a response body
    wire,                  \* the part of that body the reader has not returned yet
    readerDone,            \* reader.read() has reported done
    handled,               \* the events onEvent was called with, in call order
    isRecording,           \* ChatInterface state
    isTranscribing,        \* ChatInterface state
    isMicStarting,         \* ChatInterface state
    sttError,              \* ChatInterface state: "none" or the error shown
    recordingRef,          \* recordingRef.current: NoCapture or the capture it holds
    captures,              \* one entry per startRecording call that passed its guard
    stopCall,              \* what the last stopRecording call did
    samples,               \* encodeWav argument: the samples, in units of 1/Denominator
    sampleRate,            \* encodeWav argument
    numChannels,           \* encodeWav argument
    wav                    \* the bytes of the buffer encodeWav returned, << >> before

vars == << records, index, clock, conversations, currentConversationId,
           currentConversation, isLoading, pendingClarification, originalQuery,
           streams, nEvents, crashed, call, rawIndex, rawRecord,
           written, wire, readerDone, handled,
           isRecording, isTranscribing, isMicStarting, sttError, recordingRef,
           captures, stopCall, samples, sampleRate, numChannels, wav >>

\* The state of the App component, and the state outside it.
storeVars == << records, index, clock >>
appVars == << conversations, currentConversationId, currentConversation, isLoading,
              pendingClarification, originalQuery, streams, nEvents, crashed >>
readerVars == << written, wire, readerDone, handled >>
capturerVars == << isRecording, isTranscribing, isMicStarting, sttError, recordingRef,
                   captures, stopCall >>
wavVars == << samples, sampleRate, numChannels, wav >>
outsideApp == << call, rawIndex, rawRecord, readerVars, capturerVars, wavVars >>
outsideStore == << appVars, rawIndex, rawRecord, readerVars, capturerVars, wavVars >>
outsideReader == << storeVars, appVars, call, rawIndex, rawRecord, capturerVars, wavVars >>
outsideCapturer ==
    << storeVars, conversations, currentConversationId, currentConversation,
       pendingClarification, originalQuery, streams, nEvents, crashed, call,
       rawIndex, rawRecord, readerVars, wavVars >>
outsideWav == << storeVars, appVars, call, rawIndex, rawRecord, readerVars, capturerVars >>

(***************************************************************************)
(* localConversations (the store).  localStorage holds one JSON string per *)
(* conversation and one for the index.  Every value the model stores is a  *)
(* JSON value (strings, booleans, null, arrays, objects), and a property   *)
(* that JSON.stringify drops reads as undefined after JSON.parse as it did *)
(* before, so a stored record is represented by the value it parses to.    *)
(* A store state is [records, index].                                      *)
(***************************************************************************)
Storage(recs, idx) == [records |-> recs, index |-> idx]

Last(seq) == seq[Len(seq)]

\* Array.prototype.slice(0, -2)
SliceOffLastTwo(messages) ==
    IF Len(messages) <= 2 THEN << >> ELSE SubSeq(messages, 1, Len(messages) - 2)

\* index.findIndex((c) => c.id === id), 0 for "not found"
FindIndex(idx, id) ==
    IF \E i \in 1..Len(idx) : idx[i].id = id
    THEN CHOOSE i \in 1..Len(idx) : idx[i].id = id /\ \A j \in 1..(i - 1) : idx[j].id # id
    ELSE 0

\* index.sort((a, b) => String(b.created_at).localeCompare(String(a.created_at))):
\* a stable sort, newest created_at first.  created_at is an ISO timestamp of
\* fixed width, ordered as the clock value it was read from.
\* the index left in the order upsertIndexItem placed it in (no sort)
Unsorted(idx) == idx

RECURSIVE SortNewestFirst(_)
SortNewestFirst(idx) ==
    IF idx = << >> THEN << >>
    ELSE LET sorted == SortNewestFirst(SubSeq(idx, 1, Len(idx) - 1))
             e == Last(idx)
             k == Cardinality({ i \in 1..Len(sorted) : sorted[i].created_at >= e.created_at })
         IN  SubSeq(sorted, 1, k) \o << e >> \o SubSeq(sorted, k + 1, Len(sorted))

IndexItem(id, created_at, title, message_count) ==
    [id |-> id, created_at |-> created_at, title |-> title, message_count |-> message_count]

\* upsertIndexItem that prepends the entry whether or not the id has one
UpsertAlwaysPrepends(idx, item) ==
    SortNewestFirst(<< IndexItem(item.id, item.created_at,
                                 IF item.title = "" THEN DefaultTitle ELSE item.title,
                                 item.message_count) >> \o idx)

\* upsertIndexItem: replace the entry of item.id or prepend it, then sort.
UpsertIndexItem(idx, item) ==
    LET nextItem == IndexItem(item.id, item.created_at,
                              IF item.title = "" THEN DefaultTitle ELSE item.title,
                              item.message_count)
        existingIdx == FindIndex(idx, item.id)
        placed == IF existingIdx > 0
                  THEN [idx EXCEPT ![existingIdx] = nextItem]
                  ELSE << nextItem >> \o idx
    IN  SortNewestFirst(placed)

\* save that takes message_count from the record stored before the write
SaveStaleCount(st, conversation) ==
    Storage((conversation.id :> conversation) @@ st.records,
            UpsertIndexItem(st.index,
                            IndexItem(conversation.id, conversation.created_at,
                                      conversation.title,
                                      IF conversation.id \in DOMAIN st.records
                                      THEN Len(st.records[conversation.id].messages)
                                      ELSE 0)))

\* save that adds messages.length to the message_count the index has
SaveCountsUp(st, conversation) ==
    LET existingIdx == FindIndex(st.index, conversation.id)
        counted == IF existingIdx > 0 THEN st.index[existingIdx].message_count ELSE 0
    IN  Storage((conversation.id :> conversation) @@ st.records,
                UpsertIndexItem(st.index,
                                IndexItem(conversation.id, conversation.created_at,
                                          conversation.title,
                                          counted + Len(conversation.messages))))

\* localConversations.save(conversation), for a conversation with an id:
\* writes the record, re-derives and upserts its index entry.  created_at is
\* set on every Conversation (create sets it, no caller removes it) and
\* messages is an array, so the fallbacks nowIso() and 0 are not taken.
Save(st, conversation) ==
    Storage((conversation.id :> conversation) @@ st.records,
            UpsertIndexItem(st.index,
                            IndexItem(conversation.id, conversation.created_at,
                                      IF conversation.title = "" THEN DefaultTitle
                                      ELSE conversation.title,
                                      Len(conversation.messages))))

\* localConversations.get(id)
Get(st, id) == IF id \in DOMAIN st.records THEN Some(st.records[id]) ELSE None

\* localConversations.list()
List(st) == st.index

\* create that writes the record and leaves the index as it is
CreateSkipsIndex(st, id, now) ==
    LET conversation == [id |-> id, created_at |-> now, title |-> DefaultTitle,
                         messages |-> << >>]
    IN  [conversation |-> conversation,
         store |-> Storage((id :> conversation) @@ st.records, st.index)]

\* localConversations.create(), with the id randomId() returned and the time
\* nowIso() returned.
Create(st, id, now) ==
    LET conversation == [id |-> id, created_at |-> now, title |-> DefaultTitle,
                         messages |-> << >>]
    IN  [conversation |-> conversation,
         store |-> Storage((id :> conversation) @@ st.records,
                           UpsertIndexItem(st.index, IndexItem(id, now, DefaultTitle, 0)))]

(***************************************************************************)
(* Messages.                                                               *)
(***************************************************************************)
UserMessage(content) == [role |-> "user", content |-> content]

AssistantMessageLoading ==
    [role |-> "assistant", clarification |-> None, stage1 |-> Null, stage2 |-> Null,
     stage3 |-> Null, metadata |-> Null,
     loading |-> [clarification |-> FALSE, stage1 |-> TRUE, stage2 |-> FALSE,
                  stage3 |-> FALSE]]

AssistantMessage ==
    [role |-> "assistant", clarification |-> None, stage1 |-> Null, stage2 |-> Null,
     stage3 |-> Null, metadata |-> Null,
     loading |-> [clarification |-> FALSE, stage1 |-> FALSE, stage2 |-> FALSE,
                  stage3 |-> FALSE]]

\* event.data of a clarification_needed event and event.metadata of a
\* stage2_complete event (the payloads the service sends with them).
ClarificationOf(event) == Some(ClarificationData)
MetadataOf(event) == "m2"

(***************************************************************************)
(* The onEvent switch of handleSendMessage.  Every message case is an      *)
(* updater that reads the last message of the current conversation,        *)
(* writes its fields and saves the conversation.                           *)
(***************************************************************************)
MessageEvents ==
    { "clarification_start", "clarification_needed", "clarification_complete",
      "stage1_start", "stage1_complete", "stage2_start", "stage2_complete",
      "stage3_start", "stage3_complete" }

\* lastMsg after the assignments of the case of event.type
WriteFields(lastMsg, event) ==
    CASE event.type = "clarification_start" ->
           [lastMsg EXCEPT !.loading.clarification = TRUE]
      [] event.type = "clarification_needed" ->
           [lastMsg EXCEPT !.clarification = ClarificationOf(event),
                           !.loading.clarification = FALSE]
      [] event.type = "clarification_complete" ->
           [lastMsg EXCEPT !.loading.clarification = FALSE]
      [] event.type = "stage1_start" ->
           [lastMsg EXCEPT !.loading.stage1 = TRUE]
      [] event.type = "stage1_complete" ->
           [lastMsg EXCEPT !.stage1 = event.data, !.loading.stage1 = FALSE]
      [] event.type = "stage2_start" ->
           [lastMsg EXCEPT !.loading.stage2 = TRUE]
      [] event.type = "stage2_complete" ->
           [lastMsg EXCEPT !.stage2 = event.data, !.metadata = MetadataOf(event),
                           !.loading.stage2 = FALSE]
      [] event.type = "stage3_start" ->
           [lastMsg EXCEPT !.loading.stage3 = TRUE]
      [] event.type = "stage3_complete" ->
           [lastMsg EXCEPT !.stage3 = event.data, !.loading.stage3 = FALSE]
      [] OTHER -> lastMsg

\* The updater of a message case throws a TypeError when there is no
\* conversation (prev.messages), no last message (lastMsg.loading of
\* undefined) or the last message has no loading object (a user message).
UpdaterThrows(prev, event) ==
    /\ event.type \in MessageEvents \cup {"title_complete"}
    /\ \/ prev = None
       \/ /\ event.type \in MessageEvents
          /\ \/ Len(prev[1].messages) = 0
             \/ Last(prev[1].messages).role # "assistant"

\* next of the updater of a message case, for a conversation it does not throw on
ApplyMessageEvent(conversation, event) ==
    [conversation EXCEPT !.messages[Len(conversation.messages)] =
        WriteFields(Last(conversation.messages), event)]

\* next of the title_complete updater: title: event.data?.title || prev.title
ApplyTitle(conversation, event) ==
    [conversation EXCEPT !.title = IF event.data = "" THEN conversation.title
                                   ELSE event.data]

(***************************************************************************)
(* Streams.  Each handleSendMessage call that reaches api.sendMessageStream *)
(* owns one stream: the request it sent and where the call stands.  via    *)
(* and pre record the call (which caller, the log before the call); n      *)
(* counts the events the stream has delivered, gotNeeded and gotError      *)
(* record that a clarification_needed / error event was among them, and    *)
(* last is the event delivered last.                                       *)
(***************************************************************************)
NoEvent == Event("none", Null)

UnusedStream ==
    [status |-> "unused", conv |-> NoId, content |-> NoQuery,
     skip_clarification |-> FALSE, is_first_message |-> FALSE,
     via |-> "none", pre |-> << >>, n |-> 0,
     gotNeeded |-> FALSE, gotError |-> FALSE, last |-> NoEvent]

\* A stream whose call has returned keeps only how it ended.
Ended(how) == [UnusedStream EXCEPT !.status = how]

(***************************************************************************)
(* Texts under the keys of localStorage that the store did not write (or   *)
(* that were damaged since), as getItem returns them: nothing (null), the  *)
(* empty string, a text JSON.parse throws on, or the JSON text of a value. *)
(* A JavaScript value is its type, with the items of an array and the      *)
(* property names of an object.                                            *)
(***************************************************************************)
Js(type) == [type |-> type, items |-> << >>, keys |-> {}]
JsNull == Js("null")
JsArray(items) == [type |-> "array", items |-> items, keys |-> {}]
JsObject(keys) == [type |-> "object", items |-> << >>, keys |-> keys]

Missing == [kind |-> "missing", value |-> JsNull]
EmptyText == [kind |-> "empty", value |-> JsNull]
Unparsable == [kind |-> "unparsable", value |-> JsNull]
JsonText(js) == [kind |-> "json", value |-> js]

SampleEntry == IndexItem(1, 1, "T", 0)
ConversationKeys == { "id", "created_at", "title", "messages" }

\* Values a JSON text can hold that are not what the key is meant to hold:
\* null, 42, "x", {"foo": 1}.
OtherJs == { JsNull, Js("number"), Js("string"), JsObject({ "foo" }) }

RawIndexes ==
    { Missing, EmptyText, Unparsable }
    \cup { JsonText(js) : js \in OtherJs }
    \cup { JsonText(JsArray(<< >>)), JsonText(JsArray(<< SampleEntry >>)) }

RawRecords ==
    { Missing, EmptyText, Unparsable }
    \cup { JsonText(js) : js \in OtherJs }
    \cup { JsonText(JsArray(<< >>)), JsonText(JsObject(ConversationKeys)) }

\* `raw ?` / `!raw`: null and "" are falsy
HasText(raw) == raw.kind \notin { "missing", "empty" }

\* `conv &&`: of the values above only null is falsy
Truthy(js) == js.type # "null"

\* typeof js === 'object': objects, arrays and null
TypeofObject(js) == js.type \in { "object", "array", "null" }

\* safeJsonParse(value, fallback): JSON.parse(value), fallback when it throws
SafeJsonParse(value, fallback) ==
    IF value.kind = "json" THEN value.value ELSE fallback

\* getIndex(), reading raw under INDEX_KEY
GetIndex(raw) ==
    LET idx == IF HasText(raw) THEN SafeJsonParse(raw, JsArray(<< >>))
               ELSE JsArray(<< >>)
    IN  IF idx.type = "array" THEN idx.items ELSE << >>

\* localConversations.get(id), reading raw under convKey(id): null is None
GetRaw(raw) ==
    IF ~HasText(raw) THEN None
    ELSE LET conv == SafeJsonParse(raw, JsNull)
         IN  IF Truthy(conv) /\ TypeofObject(conv) THEN Some(conv) ELSE None

\* The App as mounted.
AppInit ==
    /\ conversations = << >>
    /\ currentConversationId = NoId
    /\ currentConversation = None
    /\ isLoading = FALSE
    /\ pendingClarification = None
    /\ originalQuery = NoQuery
    /\ streams = [s \in StreamIds |-> UnusedStream]
    /\ nEvents = 0
    /\ crashed = FALSE

\* An empty localStorage.
StoreInit ==
    /\ records = << >>
    /\ index = << >>
    /\ clock = 1

\* No response body is being read.
ReaderIdle ==
    /\ written = << >>
    /\ wire = << >>
    /\ readerDone = FALSE
    /\ handled = << >>

\* ChatInterface as mounted: nothing is recorded.
NoCapture == 0
CapturerInit ==
    /\ isRecording = FALSE
    /\ isTranscribing = FALSE
    /\ isMicStarting = FALSE
    /\ sttError = "none"
    /\ recordingRef = NoCapture
    /\ captures = [c \in CaptureIds |-> "unused"]
    /\ stopCall = "none"

\* encodeWav has not been called.
WavIdle ==
    /\ samples = << >>
    /\ sampleRate = 0
    /\ numChannels = 0
    /\ wav = << >>

NoCall == [op |-> "none", id |-> NoId, arg |-> None, threw |-> FALSE,
           returned |-> None, again |-> FALSE, n |-> 0]

Init ==
    /\ StoreInit
    /\ AppInit
    /\ call = NoCall
    /\ rawIndex = Missing
    /\ rawRecord = [id \in ConvIds |-> Missing]
    /\ ReaderIdle
    /\ CapturerInit
    /\ WavIdle

Store == Storage(records, index)

\* What a behaviour has used of the model's bounds.
Work ==
    Cardinality(DOMAIN records)
    + Cardinality({ s \in StreamIds : streams[s].status # "unused" }) + nEvents

\* randomId(): an id no conversation has.  Ids are opaque and interchangeable,
\* so the model hands them out in order.
FreshId(id) ==
    /\ id \notin DOMAIN records
    /\ \A other \in ConvIds : other < id => other \in DOMAIN records

\* handleNewConversation, then the effect on currentConversationId.
\* nowIso() reads the clock, which has advanced since the last gesture.
NewConversation(id, now) ==
    /\ ~crashed
    /\ FreshId(id)
    /\ Work < MaxWork
    /\ LET created == Create(Store, id, now)
       IN  /\ records' = created.store.records
           /\ index' = created.store.index
           /\ conversations' = created.store.index
           /\ currentConversationId' = id
           /\ currentConversation' = Get(created.store, id)
    /\ clock' = now
    /\ pendingClarification' = None
    /\ originalQuery' = NoQuery
    /\ UNCHANGED << isLoading, streams, nEvents, crashed >>
    /\ UNCHANGED outsideApp

\* Sidebar: a click on an entry of the list; handleSelectConversation, then
\* the effect on currentConversationId (it runs when the id changed).
SelectConversation(id) ==
    /\ ~crashed
    /\ \E i \in 1..Len(conversations) : conversations[i].id = id
    /\ id # currentConversationId
    /\ currentConversationId' = id
    /\ currentConversation' = Get(Store, id)
    /\ pendingClarification' = None
    /\ originalQuery' = NoQuery
    /\ UNCHANGED << records, index, clock, conversations, isLoading, streams,
                    nEvents, crashed >>
    /\ UNCHANGED outsideApp

\* handleSendMessage(content, skipClarification), called by `via`, when it
\* passes its two guards; s is the stream api.sendMessageStream opens.
\* pendingClarification and originalQuery are the values of the render the
\* handler was created in.
SendMessage(s, content, skipClarification, via) ==
    LET answering == pendingClarification # None /\ originalQuery # NoQuery
        finalContent == IF answering THEN originalQuery \o Separator \o content
                        ELSE content
        prev == currentConversation[1]
        withUser == [prev EXCEPT !.messages = Append(prev.messages, UserMessage(content))]
        st1 == Save(Store, withUser)
        withAssistant == [withUser EXCEPT
                            !.messages = Append(withUser.messages, AssistantMessage)]
        st2 == Save(st1, withAssistant)
    IN  /\ currentConversationId # NoId
        /\ currentConversation # None
        /\ isLoading' = TRUE
        /\ pendingClarification' =
              IF answering \/ via = "skip" THEN None ELSE pendingClarification
        /\ originalQuery' = IF answering THEN NoQuery ELSE content
        /\ currentConversation' = Some(withAssistant)
        /\ records' = st2.records
        /\ index' = st2.index
        /\ conversations' = List(st2)
        /\ streams' = [streams EXCEPT ![s] =
              [status |-> "open", conv |-> currentConversationId,
               content |-> finalContent,
               skip_clarification |-> (answering \/ skipClarification),
               is_first_message |-> (Len(prev.messages) = 0),
               via |-> via, pre |-> prev.messages, n |-> 0,
               gotNeeded |-> FALSE, gotError |-> FALSE, last |-> NoEvent]]
        /\ UNCHANGED << clock, currentConversationId, nEvents, crashed >>
        /\ UNCHANGED outsideApp

FreeStream(s) ==
    /\ Work < MaxWork
    /\ streams[s].status = "unused"
    /\ \A t \in StreamIds : t < s => streams[t].status # "unused"

\* ChatInterface.handleSubmit: the form is rendered when the conversation is
\* empty or a clarification is pending; it sends when the input is not blank
\* and isLoading is false.
Submit(s, content) ==
    /\ ~crashed
    /\ FreeStream(s)
    /\ currentConversation # None
    /\ Len(currentConversation[1].messages) = 0 \/ pendingClarification # None
    /\ ~isLoading
    /\ SendMessage(s, content, FALSE, "submit")

\* handleSkipClarification, from the button rendered while a clarification
\* is pending: setPendingClarification(null), then handleSendMessage.
SkipClarification(s) ==
    /\ ~crashed
    /\ FreeStream(s)
    /\ currentConversation # None
    /\ pendingClarification # None
    /\ originalQuery # NoQuery
    /\ SendMessage(s, originalQuery, TRUE, "skip")

(***************************************************************************)
(* api.sendMessageStream: the read loop hands every event of the stream to *)
(* onEvent until the reader reports done or reader.read() (or the fetch    *)
(* before it) rejects.  Nothing in the loop looks at the type of an event. *)
(***************************************************************************)
Mark(s, event) ==
    [streams EXCEPT ![s].n = @ + 1,
                    ![s].gotNeeded = @ \/ event.type = "clarification_needed",
                    ![s].gotError = @ \/ event.type = "error",
                    ![s].last = event]

\* The setCurrentConversation updater of the case of event.type, with the
\* save it makes: the conversation it returns and the store it leaves.
\* The cases complete, error and default have no updater.
EventUpdaterSavesPrev(st, prev, event) ==
    IF event.type \in MessageEvents
    THEN [conversation |-> ApplyMessageEvent(prev, event), store |-> Save(st, prev)]
    ELSE IF event.type = "title_complete"
    THEN [conversation |-> ApplyTitle(prev, event), store |-> Save(st, prev)]
    ELSE [conversation |-> prev, store |-> st]

EventUpdaterLoadsOnUnknown(st, prev, event) ==
    IF event.type \in MessageEvents \cup { "unknown" }
    THEN LET next == ApplyMessageEvent(prev,
                        IF event.type = "unknown" THEN Event("stage1_start", Null)
                        ELSE event)
         IN  [conversation |-> next, store |-> Save(st, next)]
    ELSE IF event.type = "title_complete"
    THEN LET next == ApplyTitle(prev, event)
         IN  [conversation |-> next, store |-> Save(st, next)]
    ELSE [conversation |-> prev, store |-> st]

EventUpdater(st, prev, event) ==
    IF event.type \in MessageEvents
    THEN LET next == ApplyMessageEvent(prev, event)
         IN  [conversation |-> next, store |-> Save(st, next)]
    ELSE IF event.type = "title_complete"
    THEN LET next == ApplyTitle(prev, event)
         IN  [conversation |-> next, store |-> Save(st, next)]
    ELSE [conversation |-> prev, store |-> st]

\* onEvent(event.type, event) for one event of stream s.  An updater that
\* throws fails the render: React unmounts the App (no error boundary), its
\* state is gone and nothing is rendered any more; localStorage stays.
DeliverEvent(s, event) ==
    /\ ~crashed
    /\ streams[s].status = "open"
    /\ nEvents < MaxEvents
    /\ Work < MaxWork
    /\ nEvents' = nEvents + 1
    /\ streams' = Mark(s, event)
    /\ IF UpdaterThrows(currentConversation, event)
       THEN /\ crashed' = TRUE
            /\ UNCHANGED << records, index >>
            /\ conversations' = << >>
            /\ currentConversationId' = NoId
            /\ currentConversation' = None
            /\ isLoading' = FALSE
            /\ pendingClarification' = None
            /\ originalQuery' = NoQuery
       ELSE /\ UNCHANGED << crashed, currentConversationId >>
            /\ IF currentConversation = None
               THEN UNCHANGED << currentConversation, records, index >>
               ELSE LET updated == EventUpdater(Store, currentConversation[1], event)
                    IN  /\ currentConversation' = Some(updated.conversation)
                        /\ records' = updated.store.records
                        /\ index' = updated.store.index
            /\ conversations' =
                  IF event.type \in {"title_complete", "complete"}
                  THEN index' ELSE conversations
            /\ pendingClarification' =
                  IF event.type = "clarification_needed" THEN ClarificationOf(event)
                  ELSE pendingClarification
            /\ isLoading' =
                  IF event.type \in {"clarification_needed", "complete", "error"}
                  THEN FALSE ELSE isLoading
            /\ originalQuery' = IF event.type = "complete" THEN NoQuery
                                ELSE originalQuery
    /\ UNCHANGED clock
    /\ UNCHANGED outsideApp

\* The reader reports done: the await returns and handleSendMessage ends.
CloseStream(s) ==
    /\ ~crashed
    /\ streams[s].status = "open"
    /\ streams' = [streams EXCEPT ![s] = Ended("done")]
    /\ UNCHANGED << records, index, clock, conversations, currentConversationId,
                    currentConversation, isLoading, pendingClarification,
                    originalQuery, nEvents, crashed >>
    /\ UNCHANGED outsideApp

\* The conversation the catch block's updater returns for prev.
RollBackFirstTwo(prev) ==
    [prev EXCEPT !.messages = SubSeq(prev.messages, 3, Len(prev.messages))]

RollBack(prev) == [prev EXCEPT !.messages = SliceOffLastTwo(prev.messages)]

\* fetch rejects, the response is not ok, or reader.read() rejects: the
\* catch block of handleSendMessage.
FailStream(s) ==
    /\ ~crashed
    /\ streams[s].status = "open"
    /\ streams' = [streams EXCEPT ![s] = Ended("failed")]
    /\ IF currentConversation = None
       THEN UNCHANGED << records, index, conversations, currentConversation >>
       ELSE LET next == RollBack(currentConversation[1])
                st == Save(Store, next)
            IN  /\ currentConversation' = Some(next)
                /\ records' = st.records
                /\ index' = st.index
                /\ conversations' = List(st)
    /\ isLoading' = FALSE
    /\ UNCHANGED << clock, currentConversationId, pendingClarification,
                    originalQuery, nEvents, crashed >>
    /\ UNCHANGED outsideApp

Next ==
    \/ \E id \in ConvIds : NewConversation(id, clock + 1)
    \/ \E id \in ConvIds : SelectConversation(id)
    \/ \E s \in StreamIds : Submit(s, Typed(s))
    \/ \E s \in StreamIds : SkipClarification(s)
    \/ \E s \in StreamIds, event \in Events : DeliverEvent(s, event)
    \/ \E s \in StreamIds : CloseStream(s)
    \/ \E s \in StreamIds : FailStream(s)

Spec == Init /\ [][Next]_vars

\* The App with streams that end: reader.read() of an open stream reports
\* done or rejects at some time (the service closes the connection or the
\* transport fails).
StreamEnds(s) == CloseStream(s) \/ FailStream(s)

LiveSpec == Spec /\ \A s \in StreamIds : WF_vars(StreamEnds(s))

(***************************************************************************)
(* localConversations called directly: any caller, any sequence of         *)
(* create, save, updateTitle and remove.  call records the last call: the  *)
(* operation, the id it was about, the argument of a save, whether it      *)
(* threw, what it returned, whether it repeats the save made just before,  *)
(* and how many calls were made.                                           *)
(***************************************************************************)
\* save when there is no conversation or it has no id (!conversation?.id):
\* also writes, under the key of the absent id.
TrySaveUnguarded(st, conversation) ==
    IF conversation = None
    THEN [threw |-> TRUE, store |-> st, returned |-> None]
    ELSE LET saved == Save(st, conversation[1])
         IN  [threw |-> FALSE, store |-> saved, returned |-> Some(saved.index)]

\* localConversations.save(conversation), for any argument: throws
\* 'Conversation missing id' before it writes anything.
TrySave(st, conversation) ==
    IF conversation = None \/ conversation[1].id = NoId
    THEN [threw |-> TRUE, store |-> st, returned |-> None]
    ELSE LET saved == Save(st, conversation[1])
         IN  [threw |-> FALSE, store |-> saved, returned |-> Some(saved.index)]

\* localConversations.updateTitle(id, title)
UpdateTitle(st, id, title) ==
    LET conv == Get(st, id)
    IN  IF conv = None
        THEN [store |-> st, returned |-> None]
        ELSE LET next == [conv[1] EXCEPT !.title = IF title = "" THEN conv[1].title
                                                    ELSE title]
                 saved == Save(st, next)
             IN  [store |-> saved,
                  returned |-> Some([conversation |-> next, index |-> saved.index])]

\* remove that deletes the record and leaves the index as it is
RemoveKeepsEntry(st, id) ==
    Storage([k \in DOMAIN st.records \ {id} |-> st.records[k]], st.index)

\* localConversations.remove(id)
Remove(st, id) ==
    Storage([k \in DOMAIN st.records \ {id} |-> st.records[k]],
            SelectSeq(st.index, LAMBDA c : c.id # id))

\* The conversations a caller passes to save: none, one without an id, or a
\* Conversation (id, created_at, title, messages).
Titles == { "", "T" }
Logs == { << >>, << UserMessage(Typed(1)), AssistantMessage >> }
SaveArguments ==
    { None, Some([id |-> NoId, created_at |-> 1, title |-> "T", messages |-> << >>]) }
    \cup { Some([id |-> id, created_at |-> t, title |-> title, messages |-> log]) :
             id \in ConvIds, t \in 1..MaxClock, title \in Titles, log \in Logs }

Called(op, id, arg, threw, returned) ==
    [op |-> op, id |-> id, arg |-> arg, threw |-> threw, returned |-> returned,
     again |-> (op = "save" /\ call.op = "save" /\ ~threw /\ arg = call.arg),
     n |-> call.n + 1]

StoreCreate(id, now) ==
    /\ call.n < MaxCalls
    /\ FreshId(id)
    /\ now <= MaxClock
    /\ LET created == Create(Store, id, now)
       IN  /\ records' = created.store.records
           /\ index' = created.store.index
           /\ call' = Called("create", id, None, FALSE,
                             Some([conversation |-> created.conversation,
                                   index |-> created.store.index]))
    /\ clock' = now
    /\ UNCHANGED outsideStore

StoreSave(conversation) ==
    /\ call.n < MaxCalls
    /\ LET saved == TrySave(Store, conversation)
       IN  /\ records' = saved.store.records
           /\ index' = saved.store.index
           /\ call' = Called("save",
                             IF conversation = None THEN NoId ELSE conversation[1].id,
                             conversation, saved.threw, saved.returned)
    /\ UNCHANGED clock
    /\ UNCHANGED outsideStore

StoreUpdateTitle(id, title) ==
    /\ call.n < MaxCalls
    /\ LET updated == UpdateTitle(Store, id, title)
       IN  /\ records' = updated.store.records
           /\ index' = updated.store.index
           /\ call' = Called("updateTitle", id, None, FALSE, updated.returned)
    /\ UNCHANGED clock
    /\ UNCHANGED outsideStore

StoreRemove(id) ==
    /\ call.n < MaxCalls
    /\ LET removed == Remove(Store, id)
       IN  /\ records' = removed.records
           /\ index' = removed.index
           /\ call' = Called("remove", id, None, FALSE, Some(removed.index))
    /\ UNCHANGED clock
    /\ UNCHANGED outsideStore

StoreNext ==
    \/ \E id \in ConvIds, now \in {clock, clock + 1} : StoreCreate(id, now)
    \/ \E conversation \in SaveArguments : StoreSave(conversation)
    \/ \E id \in ConvIds, title \in Titles : StoreUpdateTitle(id, title)
    \/ \E id \in ConvIds : StoreRemove(id)

StoreSpec == Init /\ [][StoreNext]_vars

(***************************************************************************)
(* The read loop of api.sendMessageStream on one response body.  The body  *)
(* is the text of one line `data: <JSON of the event>` per event, each     *)
(* followed by an empty line.  The text is a sequence of pieces: the       *)
(* prefix 'data: ', the two halves of the JSON text of event e (neither    *)
(* half is JSON by itself), and the newline.  reader.read() returns the    *)
(* body in chunks that end anywhere.                                       *)
(***************************************************************************)
Piece(t, e) == [t |-> t, e |-> e]
NewLine == Piece("nl", 0)

\* The text of the e-th event written.
EventText(e) ==
    << Piece("data", 0), Piece("json1", e), Piece("json2", e), NewLine, NewLine >>

RECURSIVE Body(_)
Body(n) == IF n = 0 THEN << >> ELSE Body(n - 1) \o EventText(n)

WireEvents == { Event("stage1_start", Null), Event("complete", Null) }

\* chunk.split('\n')
RECURSIVE SplitLines(_)
SplitLines(chunk) ==
    IF \E i \in 1..Len(chunk) : chunk[i] = NewLine
    THEN LET i == CHOOSE i \in 1..Len(chunk) :
                    /\ chunk[i] = NewLine
                    /\ \A j \in 1..(i - 1) : chunk[j] # NewLine
         IN  << SubSeq(chunk, 1, i - 1) >> \o SplitLines(SubSeq(chunk, i + 1, Len(chunk)))
    ELSE << chunk >>

\* line.startsWith('data: ')
StartsWithData(line) == Len(line) >= 1 /\ line[1].t = "data"

\* JSON.parse(data) returns (does not throw): data is the whole JSON text of
\* one event.
JsonParses(data) ==
    /\ Len(data) = 2
    /\ data[1].t = "json1"
    /\ data[2].t = "json2"
    /\ data[1].e = data[2].e

\* The body of `for (const line of lines)`: the lines that reach onEvent.
HandledLines(chunk) ==
    SelectSeq(SplitLines(chunk), LAMBDA line : StartsWithData(line) /\ JsonParses(Tail(line)))

\* The events onEvent is called with for one chunk, in order.
EventsOfChunk(chunk, events) ==
    LET lines == HandledLines(chunk)
    IN  [i \in 1..Len(lines) |-> events[lines[i][2].e]]

ReaderInit ==
    /\ StoreInit
    /\ AppInit
    /\ call = NoCall
    /\ rawIndex = Missing
    /\ rawRecord = [id \in ConvIds |-> Missing]
    /\ written \in UNION { [1..n -> WireEvents] : n \in 1..MaxWritten }
    /\ wire = Body(Len(written))
    /\ readerDone = FALSE
    /\ handled = << >>
    /\ CapturerInit
    /\ WavIdle

\* reader.read() returns the next k pieces: one pass of the while loop.
ReadChunk(k) ==
    /\ ~readerDone
    /\ k \in 1..Len(wire)
    /\ handled' = handled \o EventsOfChunk(SubSeq(wire, 1, k), written)
    /\ wire' = SubSeq(wire, k + 1, Len(wire))
    /\ UNCHANGED << written, readerDone >>
    /\ UNCHANGED outsideReader

\* reader.read() returns done: the loop breaks.
ReadDone ==
    /\ ~readerDone
    /\ wire = << >>
    /\ readerDone' = TRUE
    /\ UNCHANGED << written, wire, handled >>
    /\ UNCHANGED outsideReader

ReaderNext ==
    \/ \E k \in 1..Len(wire) : ReadChunk(k)
    \/ ReadDone

ReaderSpec == ReaderInit /\ [][ReaderNext]_vars

(***************************************************************************)
(* The recorder of ChatInterface: startRecording and stopRecording with    *)
(* the promises they await.  A capture is one startRecording call that     *)
(* passed its guard; captures[c] is where it stands:                       *)
(*   "acquiring"     getUserMedia is pending                                *)
(*   "recording"     the stream is held and the audio graph is connected    *)
(*   "closing"       stopRecording stopped the tracks; audioContext.close() *)
(*                   is pending                                             *)
(*   "transcribing"  api.speechToText is pending                            *)
(*   "ended"         the call that owned it has returned                    *)
(*   "held"          the call that owned it has returned and the tracks of  *)
(*                   its stream were never stopped                          *)
(* The handlers are called by a click on the mic button, which is         *)
(* disabled while isLoading, isTranscribing or isMicStarting and calls     *)
(* stopRecording when isRecording, startRecording otherwise.  A handler    *)
(* whose guard fails returns at once and changes nothing.  isLoading is    *)
(* the prop App passes down.  stopCall is "none" before the first call of  *)
(* stopRecording, then "ignored" when the last call returned at its guard  *)
(* (the promise resolves with undefined) and "accepted" when it went on.   *)
(* sttError is "none" (null), the message of the error a catch block got   *)
(* ("error.message"), or the fallback text of that catch block.            *)
(***************************************************************************)
MicButtonEnabled == ~(isLoading \/ isTranscribing \/ isMicStarting)

FreeCapture(c) ==
    /\ captures[c] = "unused"
    /\ \A b \in CaptureIds : b < c => captures[b] # "unused"

\* The microphone streams whose tracks are live.
MicStreams == { c \in CaptureIds : captures[c] \in { "recording", "held" } }

\* startRecording, up to `await getUserMedia`
StartRecording(c) ==
    /\ FreeCapture(c)
    /\ MicButtonEnabled /\ ~isRecording
    /\ ~(isLoading \/ isTranscribing \/ isRecording \/ isMicStarting)
    /\ sttError' = "none"
    /\ isMicStarting' = TRUE
    /\ captures' = [captures EXCEPT ![c] = "acquiring"]
    /\ UNCHANGED << isRecording, isTranscribing, recordingRef, isLoading, stopCall >>
    /\ UNCHANGED outsideCapturer

\* getUserMedia resolves: the graph is built, recordingRef.current is set.
MicGranted(c) ==
    /\ captures[c] = "acquiring"
    /\ captures' = [captures EXCEPT ![c] = "recording"]
    /\ recordingRef' = c
    /\ isRecording' = TRUE
    /\ isMicStarting' = FALSE
    /\ UNCHANGED << isTranscribing, sttError, isLoading, stopCall >>
    /\ UNCHANGED outsideCapturer

\* getUserMedia rejects (or navigator.mediaDevices is missing): the catch
\* and the finally of startRecording.
MicDeniedStaysStarting(c) ==
    /\ captures[c] = "acquiring"
    /\ captures' = [captures EXCEPT ![c] = "ended"]
    /\ sttError' = "Microphone permission was denied"
    /\ UNCHANGED << isMicStarting, isRecording, isTranscribing, recordingRef,
                    isLoading, stopCall >>
    /\ UNCHANGED outsideCapturer

MicDenied(c) ==
    /\ captures[c] = "acquiring"
    /\ captures' = [captures EXCEPT ![c] = "ended"]
    /\ sttError' = "Microphone permission was denied"
    /\ isMicStarting' = FALSE
    /\ UNCHANGED << isRecording, isTranscribing, recordingRef, isLoading, stopCall >>
    /\ UNCHANGED outsideCapturer

\* getUserMedia resolves and a step that builds the graph throws (the
\* AudioContext constructor, createMediaStreamSource, createScriptProcessor
\* or connect): the catch and the finally of startRecording.  Nothing stops
\* the tracks of the stream and recordingRef.current is not set.
GraphFailed(c) ==
    /\ captures[c] = "acquiring"
    /\ captures' = [captures EXCEPT ![c] = "held"]
    /\ sttError' = "error.message"
    /\ isMicStarting' = FALSE
    /\ UNCHANGED << isRecording, isTranscribing, recordingRef, isLoading, stopCall >>
    /\ UNCHANGED outsideCapturer

\* stopRecording, up to `await audioContext.close()`.  released: the graph
\* is disconnected and the tracks are stopped; otherwise processor.disconnect()
\* or source.disconnect() threw, the steps after it were skipped and the
\* catch and the finally ran.
StopRecording(released) ==
    /\ MicButtonEnabled /\ isRecording
    /\ ~(~isRecording \/ recordingRef = NoCapture)
    /\ recordingRef' = NoCapture
    /\ isRecording' = FALSE
    /\ stopCall' = "accepted"
    /\ IF released
       THEN /\ captures' = [captures EXCEPT ![recordingRef] = "closing"]
            /\ UNCHANGED << isTranscribing, sttError >>
       ELSE /\ captures' = [captures EXCEPT ![recordingRef] = "held"]
            /\ sttError' = "error.message"
            /\ isTranscribing' = FALSE
    /\ UNCHANGED << isMicStarting, isLoading >>
    /\ UNCHANGED outsideCapturer

\* stopRecording called while isRecording is false or recordingRef.current
\* is null: `return`.  The mic button never makes this call (it calls
\* startRecording when isRecording is false); it is what any other caller
\* of stopRecording gets.
StopIgnored ==
    /\ ~isRecording \/ recordingRef = NoCapture
    /\ stopCall' = "ignored"
    /\ UNCHANGED << isRecording, isTranscribing, isMicStarting, sttError,
                    recordingRef, captures, isLoading >>
    /\ UNCHANGED outsideCapturer

\* audioContext.close() rejects, or merging the chunks or encodeWav throws:
\* the catch and the finally of stopRecording.
EncodingFailed(c) ==
    /\ captures[c] = "closing"
    /\ captures' = [captures EXCEPT ![c] = "ended"]
    /\ sttError' = "error.message"
    /\ isTranscribing' = FALSE
    /\ UNCHANGED << isRecording, isMicStarting, recordingRef, isLoading, stopCall >>
    /\ UNCHANGED outsideCapturer

\* audioContext.close() resolves: the chunks are merged and encoded,
\* setIsTranscribing(true), api.speechToText is called.
ContextClosed(c) ==
    /\ captures[c] = "closing"
    /\ captures' = [captures EXCEPT ![c] = "transcribing"]
    /\ isTranscribing' = TRUE
    /\ UNCHANGED << isRecording, isMicStarting, sttError, recordingRef, isLoading, stopCall >>
    /\ UNCHANGED outsideCapturer

\* api.speechToText resolves: the transcript goes to the input; finally.
Transcribed(c) ==
    /\ captures[c] = "transcribing"
    /\ captures' = [captures EXCEPT ![c] = "ended"]
    /\ isTranscribing' = FALSE
    /\ UNCHANGED << isRecording, isMicStarting, sttError, recordingRef, isLoading, stopCall >>
    /\ UNCHANGED outsideCapturer

\* api.speechToText rejects: the catch and the finally of stopRecording.
TranscriptionFailed(c) ==
    /\ captures[c] = "transcribing"
    /\ captures' = [captures EXCEPT ![c] = "ended"]
    /\ sttError' = "Failed to transcribe audio"
    /\ isTranscribing' = FALSE
    /\ UNCHANGED << isRecording, isMicStarting, recordingRef, isLoading, stopCall >>
    /\ UNCHANGED outsideCapturer

\* App starts or ends a turn: the isLoading prop changes.
LoadingChanges ==
    /\ isLoading' = ~isLoading
    /\ UNCHANGED capturerVars
    /\ UNCHANGED outsideCapturer

CapturerNext ==
    \/ \E c \in CaptureIds : StartRecording(c)
    \/ \E c \in CaptureIds : MicGranted(c)
    \/ \E c \in CaptureIds : MicDenied(c)
    \/ \E c \in CaptureIds : GraphFailed(c)
    \/ \E released \in BOOLEAN : StopRecording(released)
    \/ StopIgnored
    \/ \E c \in CaptureIds : EncodingFailed(c)
    \/ \E c \in CaptureIds : ContextClosed(c)
    \/ \E c \in CaptureIds : Transcribed(c)
    \/ \E c \in CaptureIds : TranscriptionFailed(c)
    \/ LoadingChanges

CapturerSpec == Init /\ [][CapturerNext]_vars

(***************************************************************************)
(* list() and get(id) on a localStorage that holds any texts.              *)
(***************************************************************************)
RawInit ==
    /\ StoreInit
    /\ AppInit
    /\ call = NoCall
    /\ rawIndex \in RawIndexes
    /\ rawRecord \in [ConvIds -> RawRecords]
    /\ ReaderIdle
    /\ CapturerInit
    /\ WavIdle

RawList ==
    /\ call.n < MaxCalls
    /\ call' = Called("list", NoId, None, FALSE, Some(GetIndex(rawIndex)))
    /\ UNCHANGED << rawIndex, rawRecord, storeVars, appVars, readerVars, capturerVars,
                    wavVars >>

RawGet(id) ==
    /\ call.n < MaxCalls
    /\ call' = Called("get", id, None, FALSE, GetRaw(rawRecord[id]))
    /\ UNCHANGED << rawIndex, rawRecord, storeVars, appVars, readerVars, capturerVars,
                    wavVars >>

RawNext ==
    \/ RawList
    \/ \E id \in ConvIds : RawGet(id)

RawSpec == RawInit /\ [][RawNext]_vars

(***************************************************************************)
(* Properties.                                                             *)
(***************************************************************************)
Opens(s) == streams[s].status = "unused" /\ streams'[s].status = "open"
Returns(s) == streams[s].status = "open" /\ streams'[s].status \in {"done", "failed"}
Delivers(s) ==
    /\ streams[s].status = "open"
    /\ streams'[s].status = "open"
    /\ streams'[s].n = streams[s].n + 1

MessageCount(idx, id) ==
    LET k == FindIndex(idx, id) IN IF k = 0 THEN -1 ELSE idx[k].message_count

\* The log of conversation id as the App holds it, when it is the current one.
InMemoryLogIs(conversation, id, log) ==
    (conversation # None /\ conversation[1].id = id) => conversation[1].messages = log

\* C1: when the stream of a call fails, the log of the call's conversation,
\* in memory and in the store, and its index message_count are what they
\* were before the call.
C1_FailureRestoresLog ==
    [][\A s \in StreamIds :
         (streams[s].status = "open" /\ streams'[s].status = "failed") =>
            /\ records'[streams[s].conv].messages = streams[s].pre
            /\ MessageCount(index', streams[s].conv) = Len(streams[s].pre)
            /\ InMemoryLogIs(currentConversation', streams[s].conv, streams[s].pre)
      ]_vars

\* C2: once a stream has delivered an error event, the log of the turn's
\* conversation is back to its length before the turn, in memory and in the
\* store, at the latest when the call returns.
C2_ErrorEventRestoresLength ==
    [][\A s \in StreamIds :
         (Returns(s) /\ streams[s].gotError) =>
            /\ Len(records'[streams[s].conv].messages) = Len(streams[s].pre)
            /\ \/ currentConversation' = None
               \/ currentConversation'[1].id # streams[s].conv
               \/ Len(currentConversation'[1].messages) = Len(streams[s].pre)
      ]_vars

\* C3: an event a stream delivers after its error event changes neither the
\* conversation, nor the store, nor the clarification state.
C3_NothingAfterError ==
    [][\A s \in StreamIds :
         (Delivers(s) /\ streams[s].gotError) =>
            UNCHANGED << currentConversation, records, index,
                         pendingClarification, originalQuery >>
      ]_vars

\* The stage payloads and stage loading flags of the messages of a log.
StageView(messages) ==
    [i \in 1..Len(messages) |->
        IF messages[i].role = "assistant"
        THEN << messages[i].stage1, messages[i].stage2, messages[i].stage3,
                messages[i].loading.stage1, messages[i].loading.stage2,
                messages[i].loading.stage3 >>
        ELSE << >>]

\* C4: once a stream has delivered clarification_needed, the conversation of
\* the turn holds the two messages of the turn and no more (so does the
\* index message_count), and no later event of the stream changes a stage
\* payload or a stage loading flag.
C4_HaltsAfterClarificationNeeded ==
    [][\A s \in StreamIds :
         (streams[s].status = "open" /\ streams[s].gotNeeded) =>
            /\ Len(records[streams[s].conv].messages) = Len(streams[s].pre) + 2
            /\ MessageCount(index, streams[s].conv) = Len(streams[s].pre) + 2
            /\ (Delivers(s) /\ currentConversation # None /\ currentConversation' # None)
                  => StageView(currentConversation'[1].messages)
                        = StageView(currentConversation[1].messages)
      ]_vars

\* C5: a call made while a clarification is pending sends its request with
\* skip_clarification = true.
C5_PendingForcesSkip ==
    [][\A s \in StreamIds :
         (Opens(s) /\ pendingClarification # None) => streams'[s].skip_clarification
      ]_vars

\* The content the call that opened s was given: the user message it appended.
ContentArgument(s) ==
    currentConversation'[1].messages[Len(streams'[s].pre) + 1].content

\* C6: a call made while a clarification is pending sends the original query,
\* the separator and the call's content, and clears the pending clarification
\* and the stored original query.
C6_AnswerCombinesWithOriginal ==
    [][\A s \in StreamIds :
         (Opens(s) /\ pendingClarification # None) =>
            /\ streams'[s].content = originalQuery \o Separator \o ContentArgument(s)
            /\ pendingClarification' = None
            /\ originalQuery' = NoQuery
      ]_vars

\* C7: skipping a pending clarification sends a request with
\* skip_clarification = true whose content is the original query, unchanged.
C7_SkipResendsOriginal ==
    [][\A s \in StreamIds :
         (Opens(s) /\ streams'[s].via = "skip") =>
            /\ streams'[s].skip_clarification
            /\ streams'[s].content = originalQuery
      ]_vars

\* C8: no two streams of the same conversation are open at once.
C8_OneTurnPerConversation ==
    \A s, t \in StreamIds :
        (s # t /\ streams[s].status = "open" /\ streams[t].status = "open")
            => streams[s].conv # streams[t].conv

\* log is pre with one user message and one assistant message appended
IsPairAppended(log, pre) ==
    /\ Len(log) = Len(pre) + 2
    /\ SubSeq(log, 1, Len(pre)) = pre
    /\ log[Len(pre) + 1].role = "user"
    /\ log[Len(pre) + 2].role = "assistant"

\* C9: when a call returns, the log of its conversation is the log before
\* the call, or that log with one user and one assistant message appended.
C9_ReturnLeavesPairOrNothing ==
    [][\A s \in StreamIds :
         Returns(s) =>
            LET log == records'[streams[s].conv].messages
            IN  log = streams[s].pre \/ IsPairAppended(log, streams[s].pre)
      ]_vars

\* C10: between any two steps (in particular when the handler of the next
\* event starts) the stored record of the current conversation is the
\* in-memory conversation, every applied event included, and the index entry
\* is derived from it.
C10_StoreFollowsEveryEvent ==
    currentConversation # None =>
        /\ currentConversation[1].id \in DOMAIN records
        /\ records[currentConversation[1].id] = currentConversation[1]
        /\ MessageCount(index, currentConversation[1].id)
              = Len(currentConversation[1].messages)

\* Two events of one stream have been applied to the open message, in order.
C10_Witness ==
    \E s \in StreamIds :
        /\ streams[s].status = "open"
        /\ streams[s].n = 2
        /\ currentConversation # None
        /\ currentConversation[1].id = streams[s].conv
        /\ Len(currentConversation[1].messages) = 2
        /\ currentConversation[1].messages[2].stage1 = "s1"
        /\ currentConversation[1].messages[2].loading.stage2
        /\ records[streams[s].conv].messages[2].stage1 = "s1"
        /\ records[streams[s].conv].messages[2].loading.stage2


\* A call of handleSendMessage (an answer or a skip) opens a stream, or the
\* current conversation changes (one is created or another is selected).
ClearingGesture ==
    \/ \E s \in StreamIds : Opens(s)
    \/ currentConversationId' # currentConversationId

\* C23: a pending clarification is cleared by a skip, by an answer sent
\* through handleSendMessage, and by creating or selecting another
\* conversation: each of them clears it, and as long as the App is mounted
\* nothing else does.
C23_PendingClearedByDesignOnly ==
    [][pendingClarification # None =>
          /\ (pendingClarification' = None /\ ~crashed') => ClearingGesture
          /\ ClearingGesture => pendingClarification' = None
      ]_vars

\* The content the caller of the call that opens s passes: what the user
\* typed, or the original query when the call is a skip.
CallerContent(s) == IF streams'[s].via = "skip" THEN originalQuery ELSE Typed(s)

\* log is pre, then one user message with content, then one assistant
\* message with nothing set and nothing loading.
IsTurnOpened(log, pre, content) ==
    /\ Len(log) = Len(pre) + 2
    /\ SubSeq(log, 1, Len(pre)) = pre
    /\ log[Len(pre) + 1] = [role |-> "user", content |-> content]
    /\ LET placeholder == log[Len(pre) + 2]
       IN  /\ placeholder.role = "assistant"
           /\ placeholder.clarification = None
           /\ placeholder.stage1 = Null
           /\ placeholder.stage2 = Null
           /\ placeholder.stage3 = Null
           /\ placeholder.metadata = Null
           /\ \A k \in DOMAIN placeholder.loading : ~placeholder.loading[k]
           /\ DOMAIN placeholder.loading
                 = { "clarification", "stage1", "stage2", "stage3" }

\* C24: when a call opens its stream (no event is applied yet) the log of
\* the conversation is the log before the call, then one user message with
\* the caller's content, then one empty assistant placeholder, in memory
\* and in the stored record, and the index entry counts both.
C24_TurnAppendsUserThenPlaceholder ==
    [][\A s \in StreamIds :
         Opens(s) =>
            /\ streams'[s].n = 0
            /\ streams'[s].pre = currentConversation[1].messages
            /\ IsTurnOpened(currentConversation'[1].messages, streams'[s].pre,
                            CallerContent(s))
            /\ records'[streams'[s].conv].messages = currentConversation'[1].messages
            /\ MessageCount(index', streams'[s].conv) = Len(streams'[s].pre) + 2
      ]_vars

\* The second turn of a conversation is open and has delivered no event.
C24_Witness ==
    \E s \in StreamIds :
        /\ streams[s].status = "open"
        /\ streams[s].n = 0
        /\ Len(streams[s].pre) = 2
        /\ currentConversation # None
        /\ currentConversation[1].id = streams[s].conv
        /\ Len(currentConversation[1].messages) = 4
        /\ Len(records[streams[s].conv].messages) = 4

\* The event table: the payload fields and the loading flags of the open
\* assistant message that an event of a type writes.
PayloadFields == { "clarification", "stage1", "stage2", "stage3", "metadata" }
FlagNames == { "clarification", "stage1", "stage2", "stage3" }

OwnPayloads(type) ==
    CASE type = "clarification_needed" -> { "clarification" }
      [] type = "stage1_complete" -> { "stage1" }
      [] type = "stage2_complete" -> { "stage2", "metadata" }
      [] type = "stage3_complete" -> { "stage3" }
      [] OTHER -> { }

OwnFlags(type) ==
    CASE type \in { "clarification_start", "clarification_needed",
                    "clarification_complete" } -> { "clarification" }
      [] type \in { "stage1_start", "stage1_complete" } -> { "stage1" }
      [] type \in { "stage2_start", "stage2_complete" } -> { "stage2" }
      [] type \in { "stage3_start", "stage3_complete" } -> { "stage3" }
      [] OTHER -> { }

StartTypes == { "clarification_start", "stage1_start", "stage2_start", "stage3_start" }

\* new is the assistant message old with the fields of event written as
\* the table says, and every other field as it was.
IsTableEffect(old, new, event) ==
    /\ new.role = old.role
    /\ \A f \in PayloadFields \ OwnPayloads(event.type) : new[f] = old[f]
    /\ \A k \in FlagNames \ OwnFlags(event.type) : new.loading[k] = old.loading[k]
    /\ \A k \in OwnFlags(event.type) : new.loading[k] = (event.type \in StartTypes)
    /\ event.type = "clarification_needed" => new.clarification = Some(ClarificationData)
    /\ event.type = "stage1_complete" => new.stage1 = event.data
    /\ event.type = "stage2_complete" => new.stage2 = event.data /\ new.metadata = "m2"
    /\ event.type = "stage3_complete" => new.stage3 = event.data

\* newLog is oldLog with the table's effect of event on the message at
\* position open, if there is one, and nothing else changed.
IsTableEffectAt(oldLog, newLog, open, event) ==
    /\ Len(newLog) = Len(oldLog)
    /\ \A i \in 1..Len(oldLog) :
          IF i = open /\ oldLog[i].role = "assistant"
          THEN IsTableEffect(oldLog[i], newLog[i], event)
          ELSE newLog[i] = oldLog[i]

\* conversation new is conversation old after an event of stream s, whose
\* open message is the second message of its turn.
TouchesOnlyOwnFields(old, new, s) ==
    LET event == streams'[s].last
    IN  /\ new.id = old.id
        /\ event.type # "title_complete" => new.title = old.title
        /\ IsTableEffectAt(old.messages, new.messages,
                           IF old.id = streams[s].conv THEN Len(streams[s].pre) + 2 ELSE 0,
                           event)

\* C25: an event a stream delivers writes the fields the event table gives
\* its type, in the open assistant message of its turn, and changes no
\* other field of that message, no other message and (unless it is
\* title_complete) no title, in memory and in the store, whatever events
\* came before it.
C25_EventWritesOnlyItsFields ==
    [][\A s \in StreamIds :
         (Delivers(s) /\ ~crashed') =>
            /\ DOMAIN records' = DOMAIN records
            /\ \A id \in DOMAIN records :
                  TouchesOnlyOwnFields(records[id], records'[id], s)
            /\ currentConversation # None =>
                  /\ currentConversation' # None
                  /\ TouchesOnlyOwnFields(currentConversation[1],
                                          currentConversation'[1], s)
      ]_vars

\* The payload field f of assistant message m has been set by its event.
IsSet(m, f) == IF f = "clarification" THEN m[f] # None ELSE m[f] # Null

\* The loading flag that goes with a payload field.
FlagOf(f) == IF f = "metadata" THEN "stage2" ELSE f

\* The position of the assistant message the call of stream s appended.
OpenPosition(s) == Len(streams[s].pre) + 2

\* C26: once a payload field of the open assistant message of a turn is
\* set, no later event of the turn's stream changes it or sets its loading
\* flag to true again.
C26_SetFieldsNeverRegress ==
    [][\A s \in StreamIds :
         (/\ Delivers(s)
          /\ Len(records[streams[s].conv].messages) >= OpenPosition(s)
          /\ Len(records'[streams[s].conv].messages) >= OpenPosition(s)) =>
            LET old == records[streams[s].conv].messages[OpenPosition(s)]
                new == records'[streams[s].conv].messages[OpenPosition(s)]
            IN  \A f \in PayloadFields :
                   IsSet(old, f) =>
                      /\ new[f] = old[f]
                      /\ new.loading[FlagOf(f)] => old.loading[FlagOf(f)]
      ]_vars

\* C27: an event of a type the switch does not know changes neither the
\* conversation in memory, nor the store, nor the sidebar list, nor the
\* loading and clarification state; the stream stays open, and the event
\* delivered after it is applied as the event table says.
C27_UnknownEventIsNoOp ==
    [][\A s \in StreamIds :
         /\ (Delivers(s) /\ streams'[s].last.type = "unknown") =>
               /\ UNCHANGED << currentConversation, currentConversationId, records,
                               index, conversations, isLoading,
                               pendingClarification, originalQuery, crashed >>
               /\ streams'[s].status = "open"
         /\ (/\ Delivers(s)
             /\ streams[s].last.type = "unknown"
             /\ currentConversation # None
             /\ currentConversation[1].id = streams[s].conv
             /\ Len(currentConversation[1].messages) = OpenPosition(s)) =>
               /\ ~crashed'
               /\ TouchesOnlyOwnFields(currentConversation[1],
                                       currentConversation'[1], s)
               /\ records'[streams[s].conv] = currentConversation'[1]
      ]_vars

\* An unknown event followed one that set stage1; stage1 is still set.
C27_Witness ==
    \E s \in StreamIds :
        /\ streams[s].status = "open"
        /\ streams[s].n = 2
        /\ streams[s].last.type = "unknown"
        /\ currentConversation # None
        /\ currentConversation[1].id = streams[s].conv
        /\ Len(currentConversation[1].messages) = 2
        /\ currentConversation[1].messages[2].stage1 = "s1"
        /\ Len(records[streams[s].conv].messages) = 2
        /\ records[streams[s].conv].messages[2].stage1 = "s1"
        /\ isLoading

\* The title the index entry of conversation id has.
TitleInIndex(idx, id) ==
    LET k == FindIndex(idx, id) IN IF k = 0 THEN "" ELSE idx[k].title

\* C28: a title_complete event sets the title of the conversation of its
\* turn to the title of its payload when that is not empty and leaves it
\* otherwise; the messages stay as they are, and the stored record and the
\* index entry of the conversation carry the title afterwards.
C28_TitleCompleteSetsTitle ==
    [][\A s \in StreamIds :
         (Delivers(s) /\ streams'[s].last.type = "title_complete" /\ ~crashed') =>
            LET conv == streams[s].conv
                payload == streams'[s].last.data
                title == IF payload # "" THEN payload ELSE records[conv].title
            IN  /\ records'[conv].title = title
                /\ records'[conv].messages = records[conv].messages
                /\ TitleInIndex(index', conv) = title
                /\ (currentConversation # None /\ currentConversation[1].id = conv) =>
                      /\ currentConversation'[1].title = title
                      /\ currentConversation'[1].messages
                            = currentConversation[1].messages
      ]_vars

\* log with its last two messages removed
WithoutLastTwo(log) == SubSeq(log, 1, Len(log) - 2)

\* new is old with its last message, an assistant message, changed.
IsLastAssistantMutated(old, new) ==
    /\ Len(new) = Len(old)
    /\ Len(old) > 0
    /\ SubSeq(new, 1, Len(old) - 1) = SubSeq(old, 1, Len(old) - 1)
    /\ Last(old).role = "assistant"
    /\ Last(new).role = "assistant"

\* The change of a log in one step is one of those a turn makes.
IsLogStep(old, new) ==
    \/ new = old
    \/ (\E s \in StreamIds : Opens(s)) /\ IsPairAppended(new, old)
    \/ (\E s \in StreamIds : Delivers(s)) /\ IsLastAssistantMutated(old, new)
    \/ /\ \E s \in StreamIds :
             streams[s].status = "open" /\ streams'[s].status = "failed"
       /\ new = WithoutLastTwo(old)

Fails(s) == streams[s].status = "open" /\ streams'[s].status = "failed"

\* C33: an event or the failure of a stream changes no conversation other
\* than the one its turn was started in, neither its stored record nor the
\* copy in memory, and a message event always finds an assistant message
\* to write (its updater never meets an empty log or a user message).
C33_StreamTouchesOnlyItsConversation ==
    [][\A s \in StreamIds :
         (Delivers(s) \/ Fails(s)) =>
            /\ \A id \in DOMAIN records :
                  id # streams[s].conv =>
                     (id \in DOMAIN records' /\ records'[id] = records[id])
            /\ (currentConversation # None
                  /\ currentConversation[1].id # streams[s].conv) =>
                     currentConversation' = currentConversation
            /\ (Delivers(s) /\ streams'[s].last.type \in MessageEvents) => ~crashed'
      ]_vars

\* C34: whenever isLoading is true it becomes false later, given that
\* every open stream ends.
C34_LoadingEventuallyReleased == isLoading ~> ~isLoading

\* C35: whenever a clarification is pending, the original query is set.
C35_PendingHasOriginalQuery ==
    pendingClarification # None => originalQuery # NoQuery

(***************************************************************************)
(* Properties of localConversations, under StoreSpec.                      *)
(***************************************************************************)
StoreCalls(op) == call'.n = call.n + 1 /\ call'.op = op
EntriesOf(idx, id) == { i \in 1..Len(idx) : idx[i].id = id }

\* C12: after any sequence of create, save, updateTitle and remove calls,
\* every id with a stored record has an index entry whose message_count is
\* the length of the stored record's messages.
C12_CountMatchesRecord ==
    \A id \in DOMAIN records :
        /\ EntriesOf(index, id) # {}
        /\ \A i \in EntriesOf(index, id) :
              index[i].message_count = Len(records[id].messages)

C12_Witness ==
    /\ call.op = "save"
    /\ call.n >= 2
    /\ call.id \in DOMAIN records
    /\ Len(records[call.id].messages) = 2

\* C13: after any sequence of create, save, updateTitle and remove calls,
\* the index has exactly one entry for each id with a stored record and no
\* entry for any other id.
C13_OneEntryPerRecord ==
    /\ \A id \in DOMAIN records : Cardinality(EntriesOf(index, id)) = 1
    /\ \A i \in 1..Len(index) : index[i].id \in DOMAIN records

C13_Witness ==
    /\ call.op = "updateTitle"
    /\ call.returned # None
    /\ Cardinality(DOMAIN records) = 2

\* C14: after any sequence of create, save and remove calls, list() is
\* ordered newest first: of two adjacent entries the earlier has a
\* created_at greater than or equal to the later's.
C14_ListNewestFirst ==
    LET listed == List(Store)
    IN  \A i \in 1..(Len(listed) - 1) : listed[i].created_at >= listed[i + 1].created_at

C14_Witness ==
    /\ call.op = "save"
    /\ call.n = 2
    /\ Len(index) = 2
    /\ index[2].id = call.id
    /\ index[1].created_at > index[2].created_at

\* C15: save with no conversation or a conversation without an id throws
\* and writes nothing: the records and the index are as before the call.
C15_SaveWithoutIdWritesNothing ==
    [][(StoreCalls("save") /\ call'.id = NoId) =>
          /\ call'.threw
          /\ records' = records
          /\ index' = index
      ]_vars

C15_Witness ==
    /\ call.op = "save"
    /\ call.arg # None
    /\ call.id = NoId
    /\ call.threw
    /\ DOMAIN records # {}

\* C16: remove(id) deletes the record and the index entry of id and leaves
\* every other record and entry as it was; for an id that is not stored it
\* leaves the store as it was.
C16_RemoveDeletesOnlyItsOwn ==
    [][StoreCalls("remove") =>
          LET id == call'.id
          IN  /\ DOMAIN records' = DOMAIN records \ {id}
              /\ \A other \in DOMAIN records' : records'[other] = records[other]
              /\ EntriesOf(index', id) = {}
              /\ index' = SelectSeq(index, LAMBDA c : c.id # id)
              /\ (id \notin DOMAIN records /\ EntriesOf(index, id) = {}) =>
                    (DOMAIN records' = DOMAIN records /\ index' = index)
      ]_vars

C16_Witness ==
    /\ call.op = "remove"
    /\ call.n = 3
    /\ call.id \notin DOMAIN records
    /\ Cardinality(DOMAIN records) = 1
    /\ Len(index) = 1

C19_CreateAddsOneEmptyConversation ==
    [][StoreCalls("create") =>
          LET id == call'.id
          IN  /\ id \notin DOMAIN records
              /\ DOMAIN records' = DOMAIN records \cup {id}
              /\ \A other \in DOMAIN records : records'[other] = records[other]
              /\ records'[id].id = id
              /\ records'[id].messages = << >>
              /\ records'[id].title = DefaultTitle
              /\ Len(index') = Len(index) + 1
              /\ Cardinality(EntriesOf(index', id)) = 1
              /\ \A i \in EntriesOf(index', id) : index'[i].message_count = 0
              /\ call'.returned = Some([conversation |-> records'[id], index |-> index'])
              /\ DOMAIN records = {} /\ Len(index) = 0 =>
                    Len(List(Storage(records', index'))) = 1
      ]_vars

C19_Witness ==
    /\ call.op = "create"
    /\ Len(index) = 2
    /\ index[1].id = call.id
    /\ index[1].message_count = 0
    /\ records[call.id].messages = << >>



(***************************************************************************)
(* Properties of list() and get(id) on any texts, under RawSpec.           *)
(***************************************************************************)
IsArrayText(raw) == raw.kind = "json" /\ raw.value.type = "array"

\* A text that holds a Conversation: an object with the four fields.
IsRecordText(raw) ==
    /\ raw.kind = "json"
    /\ raw.value.type = "object"
    /\ ConversationKeys \subseteq raw.value.keys

\* C17: list() and get(id) never throw and never write; list() returns the
\* empty sequence when the index text is missing, unparsable or not an
\* array, and get(id) returns nothing when the text of id is missing,
\* unparsable or not a well-formed record.
C17_CorruptValuesReadAsAbsent ==
    [][/\ StoreCalls("list") =>
             /\ ~call'.threw
             /\ ~IsArrayText(rawIndex) => call'.returned = Some(<< >>)
             /\ UNCHANGED << rawIndex, rawRecord >>
       /\ StoreCalls("get") =>
             /\ ~call'.threw
             /\ ~IsRecordText(rawRecord[call'.id]) => call'.returned = None
             /\ UNCHANGED << rawIndex, rawRecord >>
      ]_vars



(***************************************************************************)
(* Properties of the read loop, under ReaderSpec.                          *)
(***************************************************************************)
IsPrefix(short, long) ==
    Len(short) <= Len(long) /\ short = SubSeq(long, 1, Len(short))

\* C11: however the body is split into chunks, onEvent is called exactly
\* once for every event written, in the order written: what was handled
\* is always a prefix of what was written, and all of it when the reader
\* is done.
C11_EveryEventHandledOnceInOrder ==
    /\ IsPrefix(handled, written)
    /\ readerDone => handled = written



(***************************************************************************)
(* Properties of the recorder, under CapturerSpec.                         *)
(***************************************************************************)
Acquiring == \E c \in CaptureIds : captures[c] = "acquiring"
TranscriptionRunning == \E c \in CaptureIds : captures[c] = "transcribing"
StartAccepted == \E c \in CaptureIds : captures[c] = "unused" /\ captures'[c] = "acquiring"
StopAccepted ==
    \E c \in CaptureIds : captures[c] = "recording" /\ captures'[c] \in { "closing", "held" }

\* C20: at most one microphone stream is held at any time; while a capture
\* is starting or recording, or the transcription of a capture is running,
\* no start() is accepted (none begins to acquire a microphone), and while
\* a capture is starting no stop() is accepted.
C20_OneCaptureAtATime ==
    [][/\ Cardinality(MicStreams) <= 1
       /\ Cardinality(MicStreams') <= 1
       /\ (Acquiring \/ MicStreams # {} \/ TranscriptionRunning) => ~StartAccepted
       /\ Acquiring => ~StopAccepted
      ]_vars

\* A call of stopRecording returns at its guard.
StopOutsideRecording ==
    /\ ~isRecording \/ recordingRef = NoCapture
    /\ stopCall # "ignored"
    /\ stopCall' = "ignored"

\* C21: a stop call made while the recorder is not recording reports an
\* error to its caller (an error status it did not show before) and changes
\* nothing else of the recorder.
C21_StopOutsideRecordingFails ==
    [][StopOutsideRecording =>
          /\ sttError' \notin { "none", sttError }
          /\ UNCHANGED << isRecording, isTranscribing, isMicStarting, recordingRef,
                          captures >>
      ]_vars

\* C22: a stop call accepted while recording leaves the tracks of its
\* stream stopped whatever fails afterwards, and at any time a stream whose
\* tracks are live is the one recordingRef holds, with isRecording set.
C22_StopAlwaysReleases ==
    [][\A c \in CaptureIds :
          /\ (captures[c] = "recording" /\ captures'[c] # "recording")
                => c \notin MicStreams'
          /\ c \in MicStreams' => (recordingRef' = c /\ isRecording')
      ]_vars

\* getUserMedia rejected for capture c in this step.
AccessRefused(c) == captures[c] = "acquiring" /\ captures'[c] = "ended"

\* the guard of startRecording
StartGuard == ~(isLoading \/ isTranscribing \/ isRecording \/ isMicStarting)

\* C30: when getUserMedia rejects, the start call ends with an error shown,
\* neither recording nor starting, with no session in recordingRef and no
\* live stream of its own; the capture never records afterwards, and the next start is
\* accepted as soon as no turn is loading and no transcription is running.
C30_RefusedStartEndsIdle ==
    [][\A c \in CaptureIds :
          /\ AccessRefused(c) =>
                /\ sttError' # "none"
                /\ ~isRecording' /\ ~isMicStarting'
                /\ recordingRef' = NoCapture
                /\ c \notin MicStreams'
                /\ (~isLoading' /\ ~isTranscribing') => StartGuard'
          /\ captures[c] = "ended" => captures'[c] = "ended"
      ]_vars

\* A start was refused access and the next start has been accepted.
C30_Witness ==
    /\ stopCall = "none"
    /\ captures[1] = "ended"
    /\ captures[2] = "acquiring"
    /\ isMicStarting

(***************************************************************************)
(* encodeWav and floatTo16BitPCM.  The buffer is the sequence of its       *)
(* bytes (byte at offset k is element k + 1).  A sample is a Float32       *)
(* value: a dyadic rational, modelled by the integer k that stands for     *)
(* k / Denominator.  Its product with 0x7fff or 0x8000 has fewer than 53   *)
(* significant bits, so the double the code computes is the exact product  *)
(* and setInt16 truncates exactly that number.  Samples are finite         *)
(* numbers (what getChannelData returns for a microphone).                 *)
(***************************************************************************)
Denominator == 1024

SampleValues ==
    { -2 * Denominator, -Denominator, 1 - Denominator, -1, 0, 1,
      Denominator - 1, Denominator, 2 * Denominator }

\* audioContext.sampleRate, and the numChannels parameter (stopRecording
\* passes 1).
SampleRates == { 8000, 44100, 48000 }
ChannelCounts == { 1, 2 }

\* string.charCodeAt(i) of the four tags writeString writes
Riff == << 82, 73, 70, 70 >>
Wave == << 87, 65, 86, 69 >>
Fmt == << 102, 109, 116, 32 >>
Data == << 100, 97, 116, 97 >>

\* view.setUint16(offset, v, true): v modulo 2^16, low byte first
SetUint16(v) == << (v % 65536) % 256, (v % 65536) \div 256 >>

\* view.setUint32(offset, v, true): v modulo 2^32, low byte first, for the
\* values below 2^31 that the model's integers hold
SetUint32(v) ==
    << v % 256, (v \div 256) % 256, (v \div 65536) % 256, (v \div 16777216) % 256 >>

\* ToInt16 drops the fraction of x = n / d (towards zero)
Truncate(n, d) == IF n >= 0 THEN n \div d ELSE -((-n) \div d)

\* Math.max(-1, Math.min(1, input[i]))
Clamp(k) ==
    LET low == IF k < Denominator THEN k ELSE Denominator
    IN  IF low > -Denominator THEN low ELSE -Denominator

\* the integer setInt16 is given for input[i]: s < 0 ? s * 0x8000 : s * 0x7fff
\* (the scale of the non-negative side is 0x8000 too)
QuantizeSymmetric(k) == Truncate(Clamp(k) * 32768, Denominator)

Quantize(k) ==
    LET s == Clamp(k)
    IN  IF s < 0 THEN Truncate(s * 32768, Denominator)
        ELSE Truncate(s * 32767, Denominator)

\* view.setInt16(offset, q, true): two's complement, low byte first
SetInt16(q) == SetUint16(q % 65536)

\* floatTo16BitPCM: the bytes written from the offset on, for input
RECURSIVE FloatTo16BitPCM(_)
FloatTo16BitPCM(input) ==
    IF Len(input) = 0 THEN << >>
    ELSE SetInt16(Quantize(Head(input))) \o FloatTo16BitPCM(Tail(input))

\* encodeWav without the data size field (offset 40 holds the container size)
EncodeWavDataSizeIsContainerSize(input, rate, channels) ==
    LET bytesPerSample == 2
        blockAlign == channels * bytesPerSample
    IN  Riff \o SetUint32(36 + Len(input) * bytesPerSample) \o Wave \o Fmt
        \o SetUint32(16) \o SetUint16(1) \o SetUint16(channels) \o SetUint32(rate)
        \o SetUint32(rate * blockAlign) \o SetUint16(blockAlign) \o SetUint16(16)
        \o Data \o SetUint32(36 + Len(input) * bytesPerSample)
        \o FloatTo16BitPCM(input)

\* encodeWav: the bytes of the buffer of 44 + samples.length * 2 bytes
EncodeWav(input, rate, channels) ==
    LET bytesPerSample == 2
        blockAlign == channels * bytesPerSample
    IN  Riff \o SetUint32(36 + Len(input) * bytesPerSample) \o Wave \o Fmt
        \o SetUint32(16) \o SetUint16(1) \o SetUint16(channels) \o SetUint32(rate)
        \o SetUint32(rate * blockAlign) \o SetUint16(blockAlign) \o SetUint16(16)
        \o Data \o SetUint32(Len(input) * bytesPerSample)
        \o FloatTo16BitPCM(input)

\* A call of encodeWav is about to be made with some arguments.
WavInit ==
    /\ StoreInit
    /\ AppInit
    /\ call = NoCall
    /\ rawIndex = Missing
    /\ rawRecord = [id \in ConvIds |-> Missing]
    /\ ReaderIdle
    /\ CapturerInit
    /\ samples \in UNION { [1..n -> SampleValues] : n \in 0..MaxSamples }
    /\ sampleRate \in SampleRates
    /\ numChannels \in ChannelCounts
    /\ wav = << >>

\* encodeWav({ samples, sampleRate, numChannels }) returns.
Encode ==
    /\ wav = << >>
    /\ wav' = EncodeWav(samples, sampleRate, numChannels)
    /\ UNCHANGED << samples, sampleRate, numChannels >>
    /\ UNCHANGED outsideWav

WavNext == Encode

WavSpec == WavInit /\ [][WavNext]_vars

(***************************************************************************)
(* Properties of encodeWav, under WavSpec.                                 *)
(***************************************************************************)
\* What a reader of a WAV file gets from the bytes at an offset.
ReadUint16(bytes, offset) == bytes[offset + 1] + 256 * bytes[offset + 2]
ReadUint32(bytes, offset) ==
    bytes[offset + 1] + 256 * bytes[offset + 2] + 65536 * bytes[offset + 3]
    + 16777216 * bytes[offset + 4]
ReadInt16(bytes, offset) ==
    LET u == ReadUint16(bytes, offset) IN IF u >= 32768 THEN u - 65536 ELSE u

\* C31: the buffer encodeWav returns has 44 + 2 * samples.length bytes, and
\* its header reads: "RIFF", container size 36 + 2 * samples.length, "WAVE",
\* "fmt ", chunk size 16, format 1, the channel count, the sample rate, byte
\* rate = sample rate * block align, block align = channels * 2, 16 bits
\* per sample, "data", data size 2 * samples.length; the data size divided
\* by the bytes per sample is samples.length.
C31_WavHeaderDescribesSamples ==
    wav # << >> =>
        /\ Len(wav) = 44 + 2 * Len(samples)
        /\ \A i \in 1..Len(wav) : wav[i] \in 0..255
        /\ SubSeq(wav, 1, 4) = Riff
        /\ ReadUint32(wav, 4) = 36 + 2 * Len(samples)
        /\ SubSeq(wav, 9, 12) = Wave
        /\ SubSeq(wav, 13, 16) = Fmt
        /\ ReadUint32(wav, 16) = 16
        /\ ReadUint16(wav, 20) = 1
        /\ ReadUint16(wav, 22) = numChannels
        /\ ReadUint32(wav, 24) = sampleRate
        /\ ReadUint32(wav, 28) = sampleRate * ReadUint16(wav, 32)
        /\ ReadUint16(wav, 32) = numChannels * 2
        /\ ReadUint16(wav, 34) = 16
        /\ SubSeq(wav, 37, 40) = Data
        /\ ReadUint32(wav, 40) = 2 * Len(samples)
        /\ ReadUint32(wav, 40) \div (ReadUint16(wav, 34) \div 8) = Len(samples)

\* Two samples were encoded for two channels.
C31_Witness ==
    /\ Len(wav) = 48
    /\ Len(samples) = 2
    /\ numChannels = 2
    /\ sampleRate = 44100

\* The empty sample sequence was encoded.
C31_WitnessEmpty ==
    /\ Len(wav) = 44
    /\ samples = << >>

Abs(n) == IF n >= 0 THEN n ELSE -n

\* C32: the two bytes at offset 44 + 2i hold, low byte first, the signed
\* 16-bit integer q of sample i: q is within -32768..32767; a sample at or
\* above 1 gives 32767 and one at or below -1 gives -32768; otherwise q is
\* the sample times 32767 (times 32768 when it is negative) without its
\* fraction, so q over its scale is within one step of the sample.
C32_SamplesQuantizedTo16Bit ==
    wav # << >> =>
        \A i \in 1..Len(samples) :
            LET offset == 44 + 2 * (i - 1)
                q == ReadInt16(wav, offset)
                s == Clamp(samples[i])
            IN  /\ q \in -32768..32767
                /\ wav[offset + 1] = (q % 65536) % 256
                /\ wav[offset + 2] = (q % 65536) \div 256
                /\ samples[i] >= Denominator => q = 32767
                /\ samples[i] <= -Denominator => q = -32768
                /\ s >= 0 =>
                      /\ 0 <= q
                      /\ q * Denominator <= s * 32767
                      /\ s * 32767 < (q + 1) * Denominator
                /\ s < 0 =>
                      /\ q <= 0
                      /\ s * 32768 <= q * Denominator
                      /\ (q - 1) * Denominator < s * 32768
                /\ Abs(s * (IF s < 0 THEN 32768 ELSE 32767) - q * Denominator)
                      <= Denominator

\* A sample above 1 and a small negative sample were encoded.
C32_Witness ==
    /\ samples = << 2 * Denominator, -1 >>
    /\ Len(wav) = 48
    /\ ReadInt16(wav, 44) = 32767
    /\ ReadInt16(wav, 46) = -32

=============================================================================
